---- MODULE Spec2Model ----
(***************************************************************************)
(* The loaner-item kiosk page.  The repository holds two builds of the     *)
(* page script:                                                            *)
(*   - script.js : the inventory is the in-page array mockItemDB and       *)
(*     processScan is synchronous;                                         *)
(*   - part_000  : the inventory lives behind api/items and api/scan and   *)
(*     processScan / renderItems are async functions.                      *)
(* Both share selectedItemId, scanBuffer, scanTimer, the message area and  *)
(* the keydown / click handlers.  The variable build says which script the *)
(* page has loaded.                                                        *)
(*                                                                         *)
(* Strings are TLA+ strings (scanBuffer += key is \o).  Styling of the     *)
(* cards, the selection banner and the scan prompt text carry no logic and *)
(* are left out; every other assignment of the handlers is modelled.       *)
(***************************************************************************)
EXTENDS Integers, Sequences, FiniteSets, TLC

VARIABLES
    build,          \* "mock" (script.js) or "api" (part_000)
    mockItemDB,     \* script.js: the item array
    selectedItemId, \* id of the selected item, or null
    scanBuffer,     \* characters accumulated by the keydown handler
    scanTimer,      \* handle returned by the last setTimeout of the handler
    timers,         \* handles of the watchdog timeouts that are armed
    messageArea,    \* the message shown ([color, message]) or EmptyHTML
    cards,          \* the item cards in the DOM: [itemId, clickable]
    items,          \* part_000: the "items" table behind api/items, api/scan
    checkout_log,   \* part_000: the "checkout_log" table
    inflight,       \* part_000: the async calls that have not finished
    requests,       \* history: how many POST api/scan requests were issued
    successes,      \* history: how many of them the store answered with success
    outstanding,    \* history: ids of the items whose last transaction is a
                    \*          Checkout (or that start Checked Out)
    resolved,       \* history: the last scan resolution that finished
    calls,          \* history: what the last step called and did
    burst,          \* history: printable keys accepted since the last
                    \*          Enter or watchdog firing
    picked          \* history: how the selection in effect was made and
                    \*          whether a scan has been started with it

vars == <<build, mockItemDB, selectedItemId, scanBuffer, scanTimer, timers,
          messageArea, cards, items, checkout_log, inflight, requests,
          successes, outstanding, resolved, calls, burst, picked>>

----------------------------------------------------------------------------
(* Values *)

null == "<null>"

\* messageArea.innerHTML = ''
EmptyHTML == [color |-> "", message |-> ""]

\* scanTimer = null: no handle (setTimeout handles are positive)
NoTimer == 0

\* Mutant of Truthy: only the empty string is falsy.
Truthy_NotEmpty(v) == v # ""

\* JavaScript truthiness of a string-or-null value.
Truthy(v) == v # null /\ v # ""

JaneId == "987654321"

\* The ids a scanner or a person types: the badge of script.js's initial
\* holder (no item of the api build's store has a holder at the start) and
\* one more badge.
OtherBadge == "111"

Badges == IF build = "mock" THEN {JaneId, OtherBadge} ELSE {OtherBadge}

\* A partial burst of more than MaxPartial characters is completed or
\* discarded by the watchdog, it is not terminated by Enter.
MaxPartial == 1

IsPrefix(p, s) == Len(p) <= Len(s) /\ SubSeq(s, 1, Len(p)) = p

Typable(b) == \E s \in Badges : IsPrefix(b, s)

Digits == {"1", "2", "3", "4", "5", "6", "7", "8", "9"}

KeyEvent(k, c, m) == [key |-> k, ctrlKey |-> c, metaKey |-> m]

\* The keydown events the page receives.
KeyEvents ==
    {KeyEvent(k, FALSE, FALSE) : k \in Digits \cup {"Enter", "Shift"}}
        \cup {KeyEvent("1", TRUE, FALSE), KeyEvent("1", FALSE, TRUE)}

----------------------------------------------------------------------------
(* script.js: data and pure helpers *)

InitialItems ==
    << [id |-> "laptop1", name |-> "Loaner Laptop 1", status |-> "Available",
        checkedOutBy |-> null, checkedOutByName |-> null],
       [id |-> "laptop2", name |-> "Loaner Laptop 2", status |-> "Checked Out",
        checkedOutBy |-> JaneId, checkedOutByName |-> "Jane Doe"],
       [id |-> "projector1", name |-> "Portable Projector", status |-> "Available",
        checkedOutBy |-> null, checkedOutByName |-> null] >>

\* s.slice(-4)
SliceLast4(s) == IF Len(s) <= 4 THEN s ELSE SubSeq(s, Len(s) - 3, Len(s))

MockUserName(scannedId) == "User (" \o SliceLast4(scannedId) \o ")"

Min(S) == CHOOSE n \in S : \A m \in S : n <= m

\* Mutant of FindHolder: no item is ever found.
FindHolder_Never(db, scannedId) == 0

\* Mutant of FindHolder: compares the display name, not the id.
FindHolder_ByName(db, scannedId) ==
    LET hits == {i \in 1..Len(db) : db[i].checkedOutByName = scannedId}
    IN  IF hits = {} THEN 0 ELSE Min(hits)

\* Array.prototype.find as an index: the first match, 0 when there is none.
FindHolder(db, scannedId) ==
    LET hits == {i \in 1..Len(db) : db[i].checkedOutBy = scannedId}
    IN  IF hits = {} THEN 0 ELSE Min(hits)

FindById(db, itemId) ==
    LET hits == {i \in 1..Len(db) : db[i].id = itemId}
    IN  IF hits = {} THEN 0 ELSE Min(hits)

\* showMessage: the content it puts in the message area.
ShowMessage(message, type) ==
    [color |-> IF type = "success" THEN "text-green-600" ELSE "text-red-600",
     message |-> message]

ReturnedMessage(scannedId, item) ==
    "Thank you, " \o MockUserName(scannedId) \o ". Item \"" \o item.name
        \o "\" has been returned."

CheckedOutMessage(scannedId, item) ==
    "Thank you, " \o MockUserName(scannedId) \o ". You have checked out \""
        \o item.name \o "\"."

UnavailableMessage == "That item is no longer available. Please select another."

NoSelectionMessage ==
    "Please select an available item *before* scanning your ID to check out."

ScanFailedMessage == "Scan failed. Please try again."

\* Mutant of RenderCards: every card gets the click listener.
RenderCards_AllClickable(list) ==
    [i \in 1..Len(list) |-> [itemId |-> list[i].id, clickable |-> TRUE]]

\* renderItems: one card per item, with a click listener when Available.
RenderCards(list) ==
    [i \in 1..Len(list) |->
        [itemId |-> list[i].id, clickable |-> list[i].status = "Available"]]

\* A successful transaction: what was done to which item for which user.
Tx(action, item, scannedId) ==
    [action |-> action, item |-> item.id, user |-> scannedId]

NoTx == [action |-> "none", item |-> "", user |-> ""]

\* Mutant of ClearSelection: the selection is left as it is.
ClearSelection_Keeps == selectedItemId

\* clearSelection: the value it leaves in selectedItemId.
ClearSelection == null

\* Mutant of ReturnItem: the holder id is not cleared.
ReturnItem_KeepsHolder(item) ==
    [item EXCEPT !.status = "Available", !.checkedOutByName = null]

ReturnItem(item) ==
    [item EXCEPT !.status = "Available", !.checkedOutBy = null,
                 !.checkedOutByName = null]

\* Mutant of CheckoutItem: the status is not set.
CheckoutItem_KeepsStatus(item, scannedId) ==
    [item EXCEPT !.checkedOutBy = scannedId,
                 !.checkedOutByName = MockUserName(scannedId)]

\* Mutant of CheckoutItem: the display name is stored as the holder.
CheckoutItem_NameAsHolder(item, scannedId) ==
    [item EXCEPT !.status = "Checked Out",
                 !.checkedOutBy = MockUserName(scannedId),
                 !.checkedOutByName = MockUserName(scannedId)]

CheckoutItem(item, scannedId) ==
    [item EXCEPT !.status = "Checked Out", !.checkedOutBy = scannedId,
                 !.checkedOutByName = MockUserName(scannedId)]

\* script.js processScan: the values it leaves behind, as a record.
\*   db, sel, msg, cards: mockItemDB, selectedItemId, messageArea, the cards
\*   renders: how many times it called renderItems
\*   inflight: the async calls in progress (none are started here)
\*   tx: the transaction it reported as a success, if any
ProcessScanMock(scannedId) ==
    IF ~Truthy(scannedId)
    THEN [db |-> mockItemDB, sel |-> selectedItemId,
          msg |-> ShowMessage(ScanFailedMessage, "error"),
          cards |-> cards, renders |-> 0, inflight |-> inflight, tx |-> NoTx]
    ELSE
      LET r == FindHolder(mockItemDB, scannedId)
          c == FindById(mockItemDB, selectedItemId)
          out ==
            IF r # 0
            THEN [db |-> [mockItemDB EXCEPT ![r] = ReturnItem(@)],
                  msg |-> ShowMessage(ReturnedMessage(scannedId, mockItemDB[r]),
                                      "success"),
                  tx |-> Tx("Returned", mockItemDB[r], scannedId)]
            ELSE IF Truthy(selectedItemId)
            THEN IF c # 0 /\ mockItemDB[c].status = "Available"
                 THEN [db |-> [mockItemDB EXCEPT ![c] = CheckoutItem(@, scannedId)],
                       msg |-> ShowMessage(
                                  CheckedOutMessage(scannedId, mockItemDB[c]),
                                  "success"),
                       tx |-> Tx("Checked Out", mockItemDB[c], scannedId)]
                 ELSE [db |-> mockItemDB,
                       msg |-> ShowMessage(UnavailableMessage, "error"),
                       tx |-> NoTx]
            ELSE [db |-> mockItemDB,
                  msg |-> ShowMessage(NoSelectionMessage, "error"),
                  tx |-> NoTx]
      IN  [db |-> out.db, sel |-> ClearSelection, msg |-> out.msg,
           cards |-> RenderCards(out.db), renders |-> 1, inflight |-> inflight,
           tx |-> out.tx]

----------------------------------------------------------------------------
(* part_000: the async calls and the store behind api/items and api/scan *)

\* The rows the schema script inserts into "items".
SeedItems ==
    << [id |-> "laptop1", name |-> "Loaner Laptop 1", status |-> "Available",
        checkedOutBy |-> null, checkedOutByName |-> null],
       [id |-> "laptop2", name |-> "Loaner Laptop 2", status |-> "Available",
        checkedOutBy |-> null, checkedOutByName |-> null],
       [id |-> "projector1", name |-> "Portable Projector", status |-> "Available",
        checkedOutBy |-> null, checkedOutByName |-> null] >>

\* A row of "checkout_log" (log_id is the position, the timestamp is left out).
LogEntry(item, action, scannedId) ==
    [item_id |-> item.id, item_name |-> item.name, action |-> action,
     user_id |-> scannedId, user_name |-> MockUserName(scannedId)]

\* Mutant of SubmitScan: a Return is not logged.
SubmitScan_ReturnNotLogged(db, log, scannedId, selId) ==
    IF ~Truthy(scannedId)
    THEN [items |-> db, log |-> log, ok |-> FALSE, error |-> "",
          message |-> ScanFailedMessage, tx |-> NoTx]
    ELSE
      LET r == FindHolder(db, scannedId)
          c == FindById(db, selId)
      IN  IF r # 0
          THEN [items |-> [db EXCEPT ![r] = ReturnItem(@)],
                log |-> log,
                ok |-> TRUE, error |-> "",
                message |-> ReturnedMessage(scannedId, db[r]),
                tx |-> Tx("Returned", db[r], scannedId)]
          ELSE IF Truthy(selId)
          THEN IF c # 0 /\ db[c].status = "Available"
               THEN [items |-> [db EXCEPT ![c] = CheckoutItem(@, scannedId)],
                     log |-> Append(log, LogEntry(db[c], "Checked Out", scannedId)),
                     ok |-> TRUE, error |-> "",
                     message |-> CheckedOutMessage(scannedId, db[c]),
                     tx |-> Tx("Checked Out", db[c], scannedId)]
               ELSE [items |-> db, log |-> log, ok |-> FALSE, error |-> "",
                     message |-> UnavailableMessage, tx |-> NoTx]
          ELSE [items |-> db, log |-> log, ok |-> FALSE, error |-> "",
                message |-> NoSelectionMessage, tx |-> NoTx]

\* The store's answer to POST api/scan {scannedId, selectedItemId}: the
\* resolver's algorithm, run on the tables.  ok is the HTTP status class.
SubmitScan(db, log, scannedId, selId) ==
    IF ~Truthy(scannedId)
    THEN [items |-> db, log |-> log, ok |-> FALSE, error |-> "",
          message |-> ScanFailedMessage, tx |-> NoTx]
    ELSE
      LET r == FindHolder(db, scannedId)
          c == FindById(db, selId)
      IN  IF r # 0
          THEN [items |-> [db EXCEPT ![r] = ReturnItem(@)],
                log |-> Append(log, LogEntry(db[r], "Returned", scannedId)),
                ok |-> TRUE, error |-> "",
                message |-> ReturnedMessage(scannedId, db[r]),
                tx |-> Tx("Returned", db[r], scannedId)]
          ELSE IF Truthy(selId)
          THEN IF c # 0 /\ db[c].status = "Available"
               THEN [items |-> [db EXCEPT ![c] = CheckoutItem(@, scannedId)],
                     log |-> Append(log, LogEntry(db[c], "Checked Out", scannedId)),
                     ok |-> TRUE, error |-> "",
                     message |-> CheckedOutMessage(scannedId, db[c]),
                     tx |-> Tx("Checked Out", db[c], scannedId)]
               ELSE [items |-> db, log |-> log, ok |-> FALSE, error |-> "",
                     message |-> UnavailableMessage, tx |-> NoTx]
          ELSE [items |-> db, log |-> log, ok |-> FALSE, error |-> "",
                message |-> NoSelectionMessage, tx |-> NoTx]

ConnectMessage == "Could not connect to the server. Check network."

UnknownErrorMessage == "An unknown error occurred."

LoadFailedMessage == "Could not load items from server. Please refresh."

\* An async call in progress.  kind "scan" is a processScan call, kind
\* "init" the renderItems call of initializeApp.  pc is the await it is
\* suspended at and what has become of the request:
\*   scan_sent, scan_replied, scan_failed      await fetch('api/scan')
\*   items_sent, items_replied, items_failed   await fetch('api/items')
\* renders and cleared are history: the renderItems calls it has made and
\* whether it has run clearSelection.  A field is blanked once nothing reads
\* it any more (the request body when the store has taken it, the answer
\* when it is lost or has been shown).
Call(kind, scannedId, selId, pc) ==
    [kind |-> kind, scannedId |-> scannedId, selectedItemId |-> selId,
     pc |-> pc, ok |-> FALSE, error |-> "", message |-> "", snapshot |-> <<>>,
     renders |-> 0, cleared |-> FALSE]

\* Mutant of ProcessScanApi: the request body carries no selection.
ProcessScanApi_SelectionDropped(scannedId) ==
    IF ~Truthy(scannedId)
    THEN [db |-> mockItemDB, sel |-> selectedItemId,
          msg |-> ShowMessage(ScanFailedMessage, "error"),
          cards |-> cards, renders |-> 0, inflight |-> inflight, tx |-> NoTx]
    ELSE [db |-> mockItemDB, sel |-> selectedItemId, msg |-> messageArea,
          cards |-> cards, renders |-> 0,
          inflight |-> Append(inflight,
                          Call("scan", scannedId, null, "scan_sent")),
          tx |-> NoTx]

\* part_000 processScan up to its first await: the request body takes
\* selectedItemId as it is now.
ProcessScanApi(scannedId) ==
    IF ~Truthy(scannedId)
    THEN [db |-> mockItemDB, sel |-> selectedItemId,
          msg |-> ShowMessage(ScanFailedMessage, "error"),
          cards |-> cards, renders |-> 0, inflight |-> inflight, tx |-> NoTx]
    ELSE [db |-> mockItemDB, sel |-> selectedItemId, msg |-> messageArea,
          cards |-> cards, renders |-> 0,
          inflight |-> Append(inflight,
                          Call("scan", scannedId, selectedItemId, "scan_sent")),
          tx |-> NoTx]

ProcessScan(scannedId) ==
    IF build = "mock" THEN ProcessScanMock(scannedId)
    ELSE ProcessScanApi(scannedId)

\* Mutant of ScanResultMessage: a failure of the request or a failure status
\* shows nothing.
ScanResultMessage_FailureSilent(call) ==
    IF call.pc = "scan_failed" \/ ~call.ok THEN EmptyHTML
    ELSE ShowMessage(call.message, "success")

\* Mutant of ScanResultMessage: every answer is shown as a success.
ScanResultMessage_AsSuccess(call) ==
    IF call.pc = "scan_failed" THEN ShowMessage(ConnectMessage, "error")
    ELSE ShowMessage(call.message, "success")

\* The message processScan shows once api/scan has answered or failed.
ScanResultMessage(call) ==
    IF call.pc = "scan_failed" THEN ShowMessage(ConnectMessage, "error")
    ELSE IF ~call.ok
    THEN ShowMessage(IF call.error # "" THEN call.error
                     ELSE IF call.message # "" THEN call.message
                     ELSE UnknownErrorMessage, "error")
    ELSE ShowMessage(call.message, "success")

RemoveAt(seq, i) == SubSeq(seq, 1, i - 1) \o SubSeq(seq, i + 1, Len(seq))

\* At most MaxRequests scans are submitted to the store in all.
MaxRequests == 2

----------------------------------------------------------------------------
(* The watchdog timer handles *)

\* setTimeout: a handle no armed timeout has.
FreshHandle(armed) == Min((1..(Cardinality(armed) + 1)) \ armed)

\* Mutant of ClearTimeout: the pending timeout is left armed.
ClearTimeout_Nothing(armed, h) == armed

\* clearTimeout(h)
ClearTimeout(armed, h) == armed \ {h}

\* Mutant of IsPrintable: the modifiers are not looked at.
IsPrintable_AnyChar(e) == Len(e.key) = 1

IsPrintable(e) == Len(e.key) = 1 /\ ~e.ctrlKey /\ ~e.metaKey

\* The event is of a named key (Shift, Tab, ...) or of a Ctrl or Meta chord.
NamedOrChord(e) == e.key # "Enter" /\ (Len(e.key) # 1 \/ e.ctrlKey \/ e.metaKey)

\* Mutant of HasScan: Enter submits the buffer whatever it holds.
HasScan_Always(buffer) == TRUE

\* if (scanBuffer.length > 0)
HasScan(buffer) == Len(buffer) > 0

\* Mutant of AppendKey: the key is put in front.
AppendKey_InFront(buffer, key) == key \o buffer

\* scanBuffer += event.key
AppendKey(buffer, key) == buffer \o key

\* Mutant of DiscardedBuffer: the callback leaves the buffer as it is.
DiscardedBuffer_Kept == scanBuffer

\* The watchdog callback's assignment: scanBuffer = ''
DiscardedBuffer == ""

----------------------------------------------------------------------------
(* History *)

\* What a step did: whether it called event.preventDefault (the handler
\* does for Enter), the arguments of its processScan calls, the scanned ids
\* the store resolved, the number of its renderItems calls, the selection a
\* scan was resolved with, the transaction that succeeded, the characters
\* the watchdog discarded, the selection, made by a click while a
\* processScan call had not finished, that a cleanup cleared, and whether
\* the step was the keydown of a key that is neither Enter nor a printable
\* character without Ctrl or Meta.
NoCalls == [preventDefault |-> FALSE, processScan |-> <<>>, submitted |-> <<>>,
            renderItems |-> 0, selection |-> null, tx |-> NoTx,
            discarded |-> "", dropped |-> null, ignored |-> FALSE]

NoneResolved == [kind |-> "none", renders |-> 0, cleared |-> FALSE]

\* The selection in effect: whether the click that made it came while a
\* processScan call had not finished, and whether a processScan call has
\* been started with it.  NoPick when nothing is selected.
NoPick == [inflight |-> FALSE, used |-> FALSE]

\* The processScan calls that have not finished.
ScansInFlight == {i \in 1..Len(inflight) : inflight[i].kind = "scan"}

\* A finished resolution: the renderItems calls it made, and whether the
\* selection was empty when its cleanup had run.
Resolved(renders, cleared) ==
    [kind |-> "scan", renders |-> renders, cleared |-> cleared]

\* outstanding after a transaction
Recorded(tx, out) ==
    IF tx.action = "Checked Out" THEN out \cup {tx.item}
    ELSE IF tx.action = "Returned" THEN out \ {tx.item}
    ELSE out

CheckedOutIds(db) == {db[i].id : i \in {j \in 1..Len(db) : db[j].status = "Checked Out"}}

keyVars == <<scanBuffer, scanTimer, timers, burst>>

storeVars == <<items, checkout_log, successes, outstanding>>

----------------------------------------------------------------------------
(* Initial state: initializeApp has run *)

InitMock ==
    /\ build = "mock"
    /\ mockItemDB = InitialItems
    /\ cards = RenderCards(InitialItems)
    /\ items = <<>>
    /\ inflight = <<>>
    /\ outstanding = CheckedOutIds(InitialItems)

\* part_000: initializeApp has called renderItems, which awaits api/items.
InitApi ==
    /\ build = "api"
    /\ mockItemDB = <<>>
    /\ cards = <<>>
    /\ items = SeedItems
    /\ inflight = <<[Call("init", "", null, "items_sent") EXCEPT !.renders = 1]>>
    /\ outstanding = CheckedOutIds(SeedItems)

Init ==
    /\ InitMock \/ InitApi
    /\ selectedItemId = null
    /\ scanBuffer = ""
    /\ scanTimer = NoTimer
    /\ timers = {}
    /\ messageArea = EmptyHTML
    /\ checkout_log = <<>>
    /\ requests = 0
    /\ successes = 0
    /\ resolved = NoneResolved
    /\ calls = NoCalls
    /\ burst = ""
    /\ picked = NoPick

----------------------------------------------------------------------------
(* Handlers *)

\* handleGlobalKeyDown(event)
HandleGlobalKeyDown(e) ==
    LET cleared == ClearTimeout(timers, scanTimer)
        h == FreshHandle(cleared)
    IN
    /\ scanTimer' = h
    /\ timers' = cleared \cup {h}
    /\ UNCHANGED <<build, items, checkout_log, successes>>
    /\ IF e.key = "Enter"
       THEN /\ scanBuffer' = ""
            /\ burst' = ""
            /\ IF HasScan(scanBuffer)
               THEN LET p == ProcessScan(scanBuffer)
                    IN  /\ mockItemDB' = p.db
                        /\ selectedItemId' = p.sel
                        /\ messageArea' = p.msg
                        /\ cards' = p.cards
                        /\ inflight' = p.inflight
                        /\ requests' = requests + Len(p.inflight) - Len(inflight)
                        /\ outstanding' = Recorded(p.tx, outstanding)
                        /\ resolved' = IF build = "mock"
                                       THEN Resolved(p.renders, p.sel = null)
                                       ELSE resolved
                        /\ picked' = IF p.sel = null THEN NoPick
                                     ELSE [picked EXCEPT !.used = TRUE]
                        /\ calls' = [NoCalls EXCEPT
                                        !.preventDefault = TRUE,
                                        !.processScan = <<scanBuffer>>,
                                        !.renderItems = p.renders,
                                        !.selection = selectedItemId,
                                        !.tx = p.tx]
               ELSE /\ UNCHANGED <<mockItemDB, selectedItemId, messageArea,
                                   cards, inflight, requests, outstanding,
                                   resolved, picked>>
                    /\ calls' = [NoCalls EXCEPT !.preventDefault = TRUE]
       ELSE /\ IF IsPrintable(e)
               THEN /\ scanBuffer' = AppendKey(scanBuffer, e.key)
                    /\ burst' = burst \o e.key
               ELSE UNCHANGED <<scanBuffer, burst>>
            /\ UNCHANGED <<mockItemDB, selectedItemId, messageArea, cards,
                           inflight, requests, outstanding, resolved, picked>>
            /\ calls' = [NoCalls EXCEPT !.ignored = NamedOrChord(e)]

\* What bounds the environment: the characters typed follow a badge, long
\* partial bursts are not terminated, and the api build's store is sent a
\* bounded number of scans.
Allowed(e) ==
    /\ IsPrintable(e) => Typable(burst \o e.key)
    /\ (e.key = "Enter" /\ burst # "") =>
          /\ Len(burst) <= MaxPartial \/ burst \in Badges
          /\ build = "api" => requests < MaxRequests

KeyDown == \E e \in KeyEvents : Allowed(e) /\ HandleGlobalKeyDown(e)

\* The watchdog timeout callback: scanBuffer = ''
ScanTimerFire ==
    \E h \in timers :
        /\ timers' = timers \ {h}
        /\ scanBuffer' = DiscardedBuffer
        /\ burst' = ""
        /\ calls' = [NoCalls EXCEPT !.discarded = burst]
        /\ UNCHANGED <<build, mockItemDB, selectedItemId, scanTimer,
                       messageArea, cards, inflight, requests, resolved>>
        /\ UNCHANGED storeVars
        /\ UNCHANGED picked

\* The click listener renderItems gives an Available card.  The click
\* bubbles to the body listener, which sees an .item-card and does nothing.
ClickCard ==
    \E i \in 1..Len(cards) :
        /\ cards[i].clickable
        /\ selectedItemId' = cards[i].itemId
        /\ picked' = [inflight |-> ScansInFlight # {}, used |-> FALSE]
        /\ calls' = NoCalls
        /\ UNCHANGED <<build, mockItemDB, messageArea, cards, inflight,
                       requests, resolved>>
        /\ UNCHANGED keyVars
        /\ UNCHANGED storeVars

\* The body click listener, for a click outside every card: clearSelection()
ClickBackground ==
    /\ selectedItemId' = ClearSelection
    /\ picked' = IF selectedItemId' = null THEN NoPick ELSE picked
    /\ calls' = NoCalls
    /\ UNCHANGED <<build, mockItemDB, messageArea, cards, inflight, requests,
                   resolved>>
    /\ UNCHANGED keyVars
    /\ UNCHANGED storeVars

\* The 5 s timeout of showMessage.  Each call of showMessage arms one for
\* its message and the callback clears the area only when the area still
\* holds that message, so a timeout that clears something is pending exactly
\* when the area is not empty.
MessageTimeout ==
    /\ messageArea # EmptyHTML
    /\ messageArea' = EmptyHTML
    /\ calls' = NoCalls
    /\ UNCHANGED <<build, mockItemDB, selectedItemId, cards, inflight,
                   requests, resolved>>
    /\ UNCHANGED keyVars
    /\ UNCHANGED storeVars
    /\ UNCHANGED picked

----------------------------------------------------------------------------
(* part_000: the store and the continuations of the async calls *)

\* The store handles a POST api/scan.
StoreScan ==
    \E i \in 1..Len(inflight) :
        /\ inflight[i].pc = "scan_sent"
        /\ LET a == SubmitScan(items, checkout_log, inflight[i].scannedId,
                               inflight[i].selectedItemId)
           IN  /\ items' = a.items
               /\ checkout_log' = a.log
               /\ successes' = IF a.ok THEN successes + 1 ELSE successes
               /\ outstanding' = Recorded(a.tx, outstanding)
               /\ inflight' = [inflight EXCEPT ![i] =
                     [Call(@.kind, "", null, "scan_replied") EXCEPT
                         !.ok = a.ok, !.error = a.error, !.message = a.message]]
               /\ calls' = [NoCalls EXCEPT
                               !.submitted = <<inflight[i].scannedId>>,
                               !.selection = inflight[i].selectedItemId,
                               !.tx = a.tx]
        /\ UNCHANGED <<build, mockItemDB, selectedItemId, messageArea, cards,
                       requests, resolved>>
        /\ UNCHANGED keyVars
        /\ UNCHANGED picked

\* The store answers a POST api/scan with a failure status and no message.
StoreScanError ==
    \E i \in 1..Len(inflight) :
        /\ inflight[i].pc = "scan_sent"
        /\ inflight' = [inflight EXCEPT ![i] =
              Call(@.kind, "", null, "scan_replied")]
        /\ calls' = NoCalls
        /\ UNCHANGED <<build, mockItemDB, selectedItemId, messageArea, cards,
                       requests, resolved>>
        /\ UNCHANGED keyVars
        /\ UNCHANGED storeVars
        /\ UNCHANGED picked

\* The store handles a GET api/items.
StoreItems ==
    \E i \in 1..Len(inflight) :
        /\ inflight[i].pc = "items_sent"
        /\ inflight' = [inflight EXCEPT ![i] =
              [@ EXCEPT !.pc = "items_replied", !.snapshot = items]]
        /\ calls' = NoCalls
        /\ UNCHANGED <<build, mockItemDB, selectedItemId, messageArea, cards,
                       requests, resolved>>
        /\ UNCHANGED keyVars
        /\ UNCHANGED storeVars
        /\ UNCHANGED picked

\* A fetch fails: the request or the answer is lost, or (api/items) the
\* answer has a failure status.
FetchFails ==
    \E i \in 1..Len(inflight) :
        /\ inflight[i].pc \in {"scan_sent", "scan_replied", "items_sent",
                               "items_replied"}
        /\ inflight' = [inflight EXCEPT ![i] =
              [Call(@.kind, "", null,
                    IF @.pc \in {"scan_sent", "scan_replied"}
                    THEN "scan_failed" ELSE "items_failed")
                 EXCEPT !.renders = inflight[i].renders,
                        !.cleared = inflight[i].cleared]]
        /\ calls' = NoCalls
        /\ UNCHANGED <<build, mockItemDB, selectedItemId, messageArea, cards,
                       requests, resolved>>
        /\ UNCHANGED keyVars
        /\ UNCHANGED storeVars
        /\ UNCHANGED picked

\* part_000 processScan from the answer of api/scan to its await of
\* renderItems: showMessage, clearSelection, renderItems up to its fetch.
\* scannedId, response and result are not read after this point.
ScanSettled ==
    \E i \in 1..Len(inflight) :
        /\ inflight[i].pc \in {"scan_replied", "scan_failed"}
        /\ messageArea' = ScanResultMessage(inflight[i])
        /\ selectedItemId' = ClearSelection
        /\ inflight' = [inflight EXCEPT ![i] =
              [Call(@.kind, "", null, "items_sent") EXCEPT
                    !.renders = inflight[i].renders + 1,
                    !.cleared = (selectedItemId' = null)]]
        /\ picked' = IF selectedItemId' = null THEN NoPick ELSE picked
        /\ calls' = [NoCalls EXCEPT
                        !.renderItems = 1,
                        !.dropped = IF picked.inflight THEN selectedItemId
                                    ELSE null]
        /\ UNCHANGED <<build, mockItemDB, cards, requests, resolved>>
        /\ UNCHANGED keyVars
        /\ UNCHANGED storeVars

\* part_000 renderItems from the answer of api/items to its end, and the
\* end of the processScan that awaited it.
ItemsSettled ==
    \E i \in 1..Len(inflight) :
        /\ inflight[i].pc \in {"items_replied", "items_failed"}
        /\ IF inflight[i].pc = "items_failed"
           THEN /\ messageArea' = ShowMessage(LoadFailedMessage, "error")
                /\ cards' = cards
           ELSE /\ messageArea' = messageArea
                /\ cards' = RenderCards(inflight[i].snapshot)
        /\ inflight' = RemoveAt(inflight, i)
        /\ resolved' = IF inflight[i].kind = "scan"
                       THEN Resolved(inflight[i].renders, inflight[i].cleared)
                       ELSE resolved
        /\ calls' = NoCalls
        /\ UNCHANGED <<build, mockItemDB, selectedItemId, requests>>
        /\ UNCHANGED keyVars
        /\ UNCHANGED storeVars
        /\ UNCHANGED picked

Next ==
    \/ KeyDown
    \/ ScanTimerFire
    \/ ClickCard
    \/ ClickBackground
    \/ MessageTimeout
    \/ StoreScan
    \/ StoreScanError
    \/ StoreItems
    \/ FetchFails
    \/ ScanSettled
    \/ ItemsSettled

\* script.js only: the async calls and the store do not exist.
NextMock ==
    \/ KeyDown
    \/ ScanTimerFire
    \/ ClickCard
    \/ ClickBackground
    \/ MessageTimeout

\* Both builds.
Spec == Init /\ [][Next]_vars

\* The page with script.js.
StartMock == Init /\ build = "mock"

SpecMock == StartMock /\ [][NextMock]_vars

\* The scan decoder alone, in both builds: keydown events and watchdog
\* firings (the requests part_000 sends stay unanswered).
NextDecoder ==
    \/ KeyDown
    \/ ScanTimerFire

SpecDecoder == Init /\ [][NextDecoder]_vars

\* The page with part_000.
StartApi == Init /\ build = "api"

SpecApi == StartApi /\ [][Next]_vars

----------------------------------------------------------------------------
(* Properties *)

\* The inventory the resolver reads and writes.
LiveItems == IF build = "mock" THEN mockItemDB ELSE items

\* The step ran script.js processScan.
MockScanStep == build = "mock" /\ calls'.processScan # <<>>

StatusAndHolder(db) ==
    [i \in 1..Len(db) |-> <<db[i].id, db[i].status, db[i].checkedOutBy>>]

\* C1: Mutual exclusion.  A successful Checkout of an item happens only
\* when the item's last transaction is not a Checkout (it was never checked
\* out, or it was returned since), and only when the item's live status is
\* Available: a checkout attempt on an item that is not Available never
\* succeeds.
C1_MutualExclusion ==
    [][calls'.tx.action = "Checked Out" =>
          /\ calls'.tx.item \notin outstanding
          /\ \A i \in 1..Len(LiveItems) :
                LiveItems[i].id = calls'.tx.item =>
                    LiveItems[i].status = "Available"]_vars

\* C1 witness: laptop2, which starts Checked Out, has been checked out
\* again (so it was returned in between) by the script.js resolver.
C1_Witness ==
    /\ build = "mock"
    /\ calls.tx.action = "Checked Out"
    /\ calls.tx.item = "laptop2"

\* C2: in every reachable state of script.js every item has status
\* "Checked Out" if and only if its holder (checkedOutBy) is present.
C2_StatusIffHolder ==
    build = "mock" =>
        \A i \in 1..Len(mockItemDB) :
            /\ mockItemDB[i].status \in {"Available", "Checked Out"}
            /\ mockItemDB[i].status = "Checked Out"
                  <=> (mockItemDB[i].checkedOutBy # null
                       /\ mockItemDB[i].checkedOutBy # "")

\* C2 witness: a scan has checked an item out and another has returned one.
C2_Witness ==
    /\ build = "mock"
    /\ \E i \in 1..Len(mockItemDB) : mockItemDB[i].checkedOutBy = OtherBadge
    /\ mockItemDB[2].status = "Available"

\* C3: Return takes precedence.  When the scanned id is the holder of an
\* item, processScan returns that item (Available, holder cleared) whether
\* or not a selection is set, and changes no other item: the selected item
\* is not checked out by that scan.
C3_ReturnFirst ==
    [][MockScanStep =>
          \A i \in 1..Len(mockItemDB) :
              mockItemDB[i].checkedOutBy = calls'.processScan[1] =>
                  /\ mockItemDB'[i].status = "Available"
                  /\ mockItemDB'[i].checkedOutBy = null
                  /\ \A j \in 1..Len(mockItemDB) :
                        j # i => mockItemDB'[j] = mockItemDB[j]]_vars

\* C3 witness: a holder scanned with an item selected and the scan was
\* resolved as a Return.
C3_Witness ==
    /\ build = "mock"
    /\ calls.tx.action = "Returned"
    /\ calls.selection # null

\* C4: Checkout.  When the scanned id is no item's holder, a selection is
\* set and the selected item is Available, processScan makes exactly that
\* item Checked Out with the scanned id as holder, reports success and
\* leaves every other item unchanged.
C4_Checkout ==
    [][MockScanStep =>
          \A c \in 1..Len(mockItemDB) :
              ( /\ \A i \in 1..Len(mockItemDB) :
                      mockItemDB[i].checkedOutBy # calls'.processScan[1]
                /\ selectedItemId = mockItemDB[c].id
                /\ mockItemDB[c].status = "Available" )
              => /\ mockItemDB'[c].status = "Checked Out"
                 /\ mockItemDB'[c].checkedOutBy = calls'.processScan[1]
                 /\ \A j \in 1..Len(mockItemDB) :
                       j # c => mockItemDB'[j] = mockItemDB[j]
                 /\ messageArea'.color = "text-green-600"
                 /\ calls'.tx = [action |-> "Checked Out",
                                 item |-> mockItemDB[c].id,
                                 user |-> calls'.processScan[1]]]_vars

\* C4 witness: the projector was selected and "111" scanned, and the
\* projector is now checked out by "111".
C4_Witness ==
    /\ build = "mock"
    /\ calls.processScan = <<OtherBadge>>
    /\ calls.selection = "projector1"
    /\ mockItemDB[3].checkedOutBy = OtherBadge
    /\ messageArea.color = "text-green-600"

\* C8: NoSelectionForCheckout.  When the scanned id is no item's holder and
\* no selection is set, processScan shows the "select an item before
\* scanning" error and the status and holder of every item are unchanged.
C8_NoSelection ==
    [][( /\ MockScanStep
         /\ \A i \in 1..Len(mockItemDB) :
               mockItemDB[i].checkedOutBy # calls'.processScan[1]
         /\ selectedItemId = null )
       => /\ messageArea' = [color |-> "text-red-600",
                             message |-> NoSelectionMessage]
          /\ StatusAndHolder(mockItemDB') = StatusAndHolder(mockItemDB)]_vars

\* C8 witness: "111" was scanned with nothing selected and the error is shown.
C8_Witness ==
    /\ build = "mock"
    /\ calls.processScan = <<OtherBadge>>
    /\ calls.selection = null
    /\ calls.tx = NoTx
    /\ messageArea.message = NoSelectionMessage

ScanPcs == {"scan_sent", "scan_replied", "scan_failed"}

ItemsPcs == {"items_sent", "items_replied", "items_failed"}

\* C5: resolving a ScanEvent, whatever its outcome, leaves the selection
\* cleared and calls renderItems exactly once: a resolution that has
\* finished made one renderItems call and its cleanup left the selection
\* empty; an async resolution has made no renderItems call while it awaits
\* api/scan and exactly one, with the selection cleared, from its cleanup on.
C5_CleanupOnce ==
    /\ resolved.kind = "scan" => (resolved.renders = 1 /\ resolved.cleared)
    /\ \A i \in 1..Len(inflight) :
          inflight[i].kind = "scan" =>
              /\ inflight[i].pc \in ScanPcs =>
                    (inflight[i].renders = 0 /\ ~inflight[i].cleared)
              /\ inflight[i].pc \in ItemsPcs =>
                    (inflight[i].renders = 1 /\ inflight[i].cleared)

\* C5 witness: the only scan of the api build could not reach the store,
\* its resolution has finished and the connection error is still shown.
C5_Witness ==
    /\ build = "api"
    /\ requests = 1
    /\ inflight = <<>>
    /\ resolved.kind = "scan"
    /\ successes = 0
    /\ messageArea.message = ConnectMessage

\* C6: a non-empty burst of printable keystrokes that the watchdog did not
\* interrupt, followed by Enter (the keydown whose default the handler
\* prevents), makes handleGlobalKeyDown call processScan exactly once, with
\* the concatenation of the keystrokes in arrival order.
C6_BurstEmitsOnce ==
    [][(calls'.preventDefault /\ burst # "") =>
          calls'.processScan = <<burst>>]_vars

\* C6 witness: the nine characters of Jane's badge and Enter were typed and
\* processScan was called with the badge id.
C6_Witness ==
    /\ calls.preventDefault
    /\ calls.processScan = <<JaneId>>

\* C7: when the watchdog fires the buffer is emptied, so the characters it
\* held are never part of a ScanEvent: every processScan call is made with
\* exactly the printable keystrokes accepted since the last firing (or the
\* last Enter), and with none accepted since then there is no call at all.
C7_WatchdogDiscards ==
    [][/\ (timers' # timers /\ timers' \subseteq timers) => scanBuffer' = ""
       /\ calls'.processScan # <<>> =>
             (burst # "" /\ calls'.processScan = <<burst>>)]_vars

\* C7 witness: the watchdog has just fired on a buffer that held characters.
C7_Witness ==
    /\ calls.discarded # ""
    /\ scanBuffer = ""
    /\ timers = {}

\* The scanned id is the holder of no item of db.
NoHolderMatch(db, scannedId) ==
    \A i \in 1..Len(db) : db[i].checkedOutBy # scannedId

\* The selection refers to an item of db that is not Available.
StaleSelection(db, selId) ==
    \E c \in 1..Len(db) : db[c].id = selId /\ db[c].status # "Available"

Transacted == {i \in 1..Len(items) : items'[i].status # items[i].status}

C11_EmptyEnterNoOp ==
    [][(calls'.preventDefault /\ scanBuffer = "") =>
          /\ calls'.processScan = <<>>
          /\ calls'.renderItems = 0
          /\ UNCHANGED <<messageArea, selectedItemId, mockItemDB, cards,
                         items, checkout_log, inflight, requests>>]_vars

\* C11 witness: Enter has just been pressed on an empty buffer while an item
\* was selected and a message was shown; both are still there.
C11_Witness ==
    /\ calls.preventDefault
    /\ calls.processScan = <<>>
    /\ selectedItemId # null
    /\ messageArea # EmptyHTML

\* A keydown that brings a scan nearer: it adds a character to the buffer
\* or starts a processScan call.
ScanProgress(e) ==
    /\ HandleGlobalKeyDown(e)
    /\ Len(scanBuffer') > Len(scanBuffer) \/ Len(inflight') > Len(inflight)

\* The store has not answered the request of the call, or has answered it
\* with a failure status.
ScanFailed(call) ==
    call.pc = "scan_failed" \/ (call.pc = "scan_replied" /\ ~call.ok)

\* C12: when api/scan cannot be reached or answers with a failure status,
\* part_000's processScan shows an error message, clears the selection and
\* goes on to its renderItems call (it does not stop at the failure); a
\* renderItems whose fetch fails shows the load error and returns.  The
\* kiosk stays usable: in every state some keydown adds to the buffer or
\* submits it, and every Enter on a non-empty buffer sends a request with
\* the characters typed, whatever failed before.
C12_FailureHandled ==
    /\ [](build = "api" /\ requests < MaxRequests =>
             \E e \in KeyEvents : Allowed(e) /\ ENABLED ScanProgress(e))
    /\ [][/\ (build = "api" /\ calls'.renderItems = 1) =>
                \A i \in 1..Len(inflight) :
                    (inflight'[i] # inflight[i] /\ ScanFailed(inflight[i])) =>
                        /\ messageArea'.color = "text-red-600"
                        /\ messageArea'.message # ""
                        /\ selectedItemId' = null
                        /\ inflight'[i].pc = "items_sent"
                        /\ UNCHANGED <<items, checkout_log>>
          /\ Len(inflight') < Len(inflight) =>
                \E i \in 1..Len(inflight) :
                    /\ inflight' = RemoveAt(inflight, i)
                    /\ inflight[i].pc = "items_failed" =>
                          /\ messageArea' =
                                [color |-> "text-red-600",
                                 message |-> LoadFailedMessage]
                          /\ cards' = cards
          /\ (build = "api" /\ calls'.processScan # <<>>) =>
                /\ Len(inflight') = Len(inflight) + 1
                /\ inflight'[Len(inflight')].pc = "scan_sent"
                /\ inflight'[Len(inflight')].scannedId = burst
                /\ SubSeq(inflight', 1, Len(inflight)) = inflight]_vars

\* C12 witness: the first scan failed (no connection, or a failure status
\* without a message), its resolution has finished, and a second burst has
\* just been submitted while the error is still shown.
C12_Witness ==
    /\ build = "api"
    /\ calls.processScan # <<>>
    /\ requests = 2
    /\ successes = 0
    /\ resolved.kind = "scan"
    /\ Len(inflight) = 1
    /\ messageArea \in {[color |-> "text-red-600", message |-> ConnectMessage],
                        [color |-> "text-red-600", message |-> UnknownErrorMessage]}

\* C13: at most one scan resolution is in flight at a time: the key handler
\* starts a processScan call only when no earlier processScan call is still
\* unfinished (no second api/scan request while an earlier resolution has
\* not completed its re-render).
C13_OneResolutionInFlight ==
    [][calls'.processScan # <<>> => ScansInFlight = {}]_vars

\* The step is the continuation of processScan call i after its await of
\* api/scan: its outcome (message, cleanup, re-render) is applied.
OutcomeApplied(i) ==
    /\ build = "api"
    /\ calls'.renderItems = 1
    /\ inflight[i].pc \in {"scan_replied", "scan_failed"}
    /\ inflight'[i] # inflight[i]

\* C14: scan events are processed in the order of their Enter keydowns
\* (the order of the calls in inflight): when the outcome of a processScan
\* call is applied, the outcome of every processScan call started before it
\* has been applied already.
C14_OutcomesInOrder ==
    [][\A i \in 1..Len(inflight) :
          OutcomeApplied(i) =>
              \A j \in 1..(i - 1) :
                  inflight[j].kind = "scan" => inflight[j].pc \notin ScanPcs]_vars

\* C15: one selection is consumed by at most one ScanEvent: a processScan
\* call is never started with a selection that an earlier processScan call
\* was already started with (the selection having been made by one click).
C15_SelectionUsedOnce ==
    [][(calls'.processScan # <<>> /\ selectedItemId # null) =>
          ~picked.used]_vars

\* C19 as claimed: a selection made while a resolution is in flight is
\* cleared by that resolution's cleanup and lost, no scan uses it.  Stated
\* for the scans that start while no other resolution is in flight: such a
\* scan is never started with a selection that was made while a resolution
\* was in flight.
C19_InFlightSelectionLost ==
    [][( /\ build = "api"
         /\ calls'.processScan # <<>>
         /\ ScansInFlight = {}
         /\ selectedItemId # null )
       => ~picked.inflight]_vars

\* C19 amended: in part_000 the request of a scan carries the selection in
\* effect at its Enter keydown, which that keydown leaves as it is; a click
\* that changes the selection changes no request or answer of a call in
\* progress; and the cleanup of a resolution clears whatever selection is
\* in effect when it runs.
C19_SelectionAtEnter ==
    [][/\ (build = "api" /\ calls'.processScan # <<>>) =>
             /\ inflight'[Len(inflight')].selectedItemId = selectedItemId
             /\ selectedItemId' = selectedItemId
       /\ (selectedItemId' # selectedItemId /\ selectedItemId' # null) =>
             inflight' = inflight
       /\ \A i \in 1..Len(inflight) :
             OutcomeApplied(i) => selectedItemId' = null]_vars

\* C19 witness: an item was selected while a request was on its way and the
\* cleanup of that resolution has just cleared the selection; the store
\* received the scan without a selection and rejected it.
C19_Witness ==
    /\ build = "api"
    /\ calls.dropped # null
    /\ selectedItemId = null
    /\ requests = 1
    /\ messageArea.message = NoSelectionMessage

\* C16 as claimed: the keydown of a key that is neither Enter nor an
\* accepted printable character leaves the scan buffer as it is and does
\* not restart the watchdog: no timeout is cleared or armed.
C16_IgnoredKeyLeavesWatchdog ==
    [][calls'.ignored =>
          /\ scanBuffer' = scanBuffer
          /\ timers' = timers
          /\ scanTimer' = scanTimer]_vars

\* C16 amended: such a keydown leaves the scan buffer, the selection, the
\* message, the inventory and the calls in progress as they are and calls
\* no processScan, but it restarts the watchdog as every keydown does:
\* after any keydown exactly the timeout the handler has just armed is
\* pending.
C16_EveryKeyRestarts ==
    [][/\ calls'.ignored =>
             /\ scanBuffer' = scanBuffer
             /\ calls'.processScan = <<>>
             /\ UNCHANGED <<selectedItemId, messageArea, mockItemDB, cards,
                            items, checkout_log, inflight>>
       /\ (calls'.ignored \/ calls'.preventDefault
               \/ Len(scanBuffer') > Len(scanBuffer)) =>
             /\ scanTimer' # NoTimer
             /\ timers' = {scanTimer'}]_vars

\* C16 witness: Shift (or a Ctrl or Meta chord) has just been pressed in
\* the middle of a burst: the buffer still holds the characters typed and
\* the watchdog the handler has just armed is pending.
C16_Witness ==
    /\ calls.ignored
    /\ scanBuffer # ""
    /\ scanBuffer = burst
    /\ timers = {scanTimer}

\* C17: in script.js no user id is the holder of two items at once: two
\* different items that are Checked Out have different checkedOutBy values.
C17_OneItemPerHolder ==
    build = "mock" =>
        \A i, j \in 1..Len(mockItemDB) :
            ( /\ i # j
              /\ mockItemDB[i].status = "Checked Out"
              /\ mockItemDB[j].status = "Checked Out" )
            => mockItemDB[i].checkedOutBy # mockItemDB[j].checkedOutBy

\* C17 witness: all three items are checked out at once.
C17_Witness ==
    /\ build = "mock"
    /\ Cardinality(CheckedOutIds(mockItemDB)) = 3

\* C18: in script.js a selection always refers to an item whose status is
\* Available, so processScan never takes its "no longer available" branch:
\* that message is never shown.
C18_SelectionAvailable ==
    build = "mock" =>
        /\ selectedItemId # null =>
              \E i \in 1..Len(mockItemDB) :
                  /\ mockItemDB[i].id = selectedItemId
                  /\ mockItemDB[i].status = "Available"
        /\ messageArea.message # UnavailableMessage

\* C18 witness: laptop2, Checked Out at the start, has been returned and is
\* selected while another item is checked out.
C18_Witness ==
    /\ build = "mock"
    /\ selectedItemId = "laptop2"
    /\ mockItemDB[1].status = "Checked Out"

\* C20: the scan buffer is non-empty only while a watchdog is pending: when
\* scanBuffer holds characters exactly one timeout is armed, the one
\* scanTimer names; and right after an Enter keydown or a firing of the
\* watchdog the buffer is empty.
C20_BufferOnlyWhileArmed ==
    /\ [](scanBuffer # "" =>
             (scanTimer # NoTimer /\ timers = {scanTimer}
                 /\ Cardinality(timers) = 1))
    /\ [][(calls'.preventDefault
               \/ (timers' # timers /\ timers' \subseteq timers)) =>
             scanBuffer' = ""]_vars

\* C20 witness: characters are in the buffer, Shift has just been pressed
\* and one watchdog is pending.
C20_Witness ==
    /\ Len(scanBuffer) > 1
    /\ calls.ignored
    /\ Cardinality(timers) = 1

====
